---- MODULE Spec2Model ----
(***************************************************************************)
(* mTabs (mtabs_qt.py): the encrypted favorites store (key file, data      *)
(* file, in-memory favorites tree, favorites menu) and the life cycle of   *)
(* the session tabs (RDPWidget and its embedded MsTscAx surface).          *)
(*                                                                         *)
(* Python values are tagged so that a str, an int, a bool and a dict are   *)
(* never confused: [s |-> ..], [i |-> ..], [b |-> ..], [d |-> function].   *)
(* A folder and a connection profile are both plain dicts, as in the code. *)
(***************************************************************************)
EXTENDS Naturals, Sequences, FiniteSets, TLC

VARIABLES
    keyFile,      \* favoritos.key on disk
    dataFile,     \* favoritos.dat on disk
    favorites,    \* MTabsMainWindow.favorites
    menu,         \* the entries of MTabsMainWindow.favorites_menu
    phase,        \* "off": no process, "running": the main window is built
    keysMade,     \* how many keys Fernet.generate_key has produced so far
    adds,         \* add_favorite calls made so far (bounded)
    last,         \* the last operation, its arguments and how it ended
    tabs,         \* the pages of tab_widget, in tab order (widget ids)
    cur,          \* tab_widget.currentIndex(), from 1; 0 with no tab
    kind,         \* per widget: "none" (not created), "welcome", "form", "rdp"
    conf,         \* per RDPWidget: _rdp_config
    rdpOf,        \* per RDPWidget: self.rdp, a surface id
    surf,         \* per surface (QAxWidget MsTscAx): its state
    winSize,      \* the size the window gives a page
    nWid,         \* widgets created so far
    nSurf         \* surfaces created so far

storeVars == <<keyFile, dataFile, favorites, menu, phase, keysMade, adds, last>>
sessVars == <<tabs, cur, kind, conf, rdpOf, surf, winSize, nWid, nSurf>>
vars == <<storeVars, sessVars>>

----------------------------------------------------------------------------
(* Bounds of the model *)

MaxAdds == 2
MaxKeys == 2
MaxPathLen == 3
MaxShortPathLen == 1
MaxWidgets == 3
MaxSurfaces == 2
MaxConnects == 3

----------------------------------------------------------------------------
(* Python values *)

PyStr(x) == [s |-> x]
PyInt(n) == [i |-> n]
PyBool(x) == [b |-> x]
PyDict(f) == [d |-> f]
IsDict(v) == DOMAIN v = {"d"}
EmptyDict == PyDict(<<>>)

\* d[k] = v on a dict
SetItem(f, k, v) == [x \in (DOMAIN f) \cup {k} |-> IF x = k THEN v ELSE f[x]]

DefaultPort == 3389

\* The dict built by get_favorite_data
ConnData(host, username, password, domain, port, nla) ==
    PyDict([k \in {"host", "username", "password", "domain", "port", "nla"} |->
        CASE k = "host" -> PyStr(host)
          [] k = "username" -> PyStr(username)
          [] k = "password" -> PyStr(password)
          [] k = "domain" -> PyStr(domain)
          [] k = "port" -> PyInt(port)
          [] OTHER -> PyBool(nla)])

\* The connection data the model draws from
Profiles ==
    { ConnData("h1", "u1", "pw", "", DefaultPort, TRUE),
      ConnData("h2", "u2", "", "dom", 3390, FALSE) }

\* Favorite and folder names the model draws from. "host" is also a field
\* name of a profile.
Names == {"a", "host"}

\* A folder path is a string; it is modelled as its sequence of tokens, a
\* token being the separator "/" or a run of other characters (a name). Two
\* runs are never adjacent: they would be one run.
Tokens == Names \cup {"/"}
PathsOfLen(n) ==
    { p \in [1..n -> Tokens] :
        \A j \in 1..(n - 1) : p[j] = "/" \/ p[j + 1] = "/" }
FolderPaths == UNION { PathsOfLen(n) : n \in 0..MaxPathLen }
ShortPaths == UNION { PathsOfLen(n) : n \in 0..MaxShortPathLen }

----------------------------------------------------------------------------
(* add_favorite: the path and the insertion *)

RECURSIVE SplitRec(_, _)
\* folder_path.split('/'): seg is the segment being read ("" when empty)
SplitRec(p, seg) ==
    IF p = <<>> THEN <<seg>>
    ELSE IF Head(p) = "/" THEN <<seg>> \o SplitRec(Tail(p), "")
    ELSE SplitRec(Tail(p), Head(p))

\* parts = [p for p in folder_path.split('/') if p]
PathParts(folder_path) ==
    SelectSeq(SplitRec(folder_path, ""), LAMBDA x : x # "")

RECURSIVE InsertRec(_, _, _, _)
\* The loop over parts and the final d[name] = conn_data, on the object v
\* that d refers to. The result is that object after the in-place changes,
\* and whether a TypeError was raised on the way (a str, int or bool has no
\* keys to test and takes no item assignment).
InsertRec(v, parts, name, conn_data) ==
    IF ~IsDict(v) THEN [val |-> v, err |-> TRUE]
    ELSE IF parts = <<>> THEN
        [val |-> PyDict(SetItem(v.d, name, conn_data)), err |-> FALSE]
    ELSE
        LET part == Head(parts)
            child == IF part \in DOMAIN v.d THEN v.d[part] ELSE EmptyDict
            r == InsertRec(child, Tail(parts), name, conn_data)
        IN [val |-> PyDict(SetItem(v.d, part, r.val)), err |-> r.err]

Insert(tree, folder_path, name, conn_data) ==
    InsertRec(tree, PathParts(folder_path), name, conn_data)

----------------------------------------------------------------------------
(* _update_favorites_menu: the traversal *)

\* isinstance(value, dict) and not all(k in value for k in
\*   ('host', 'username', 'password'))
IsSubmenu(value) ==
    IsDict(value) /\ ~({"host", "username", "password"} \subseteq DOMAIN value.d)

RECURSIVE AddFavItems(_, _)
\* add_fav_items(menu, fav_dict): the actions added, each with the path of
\* submenus it sits under, its text and the value bound to it, and the
\* submenus created
AddFavItems(path, fav_dict) ==
    UNION { IF IsSubmenu(fav_dict[key])
            THEN {[kind |-> "submenu", path |-> path, key |-> key,
                   value |-> EmptyDict]}
                 \cup AddFavItems(Append(path, key), fav_dict[key].d)
            ELSE {[kind |-> "action", path |-> path, key |-> key,
                   value |-> fav_dict[key]]}
          : key \in DOMAIN fav_dict }

UpdateFavoritesMenu(tree) == AddFavItems(<<>>, tree.d)

----------------------------------------------------------------------------
(* pickle: dumps writes the opcodes of a value, loads runs them on a stack *)

EMPTY_DICT == [op |-> "EMPTY_DICT"]
MARK == [op |-> "MARK"]
SETITEMS == [op |-> "SETITEMS"]
STOP == [op |-> "STOP"]

RECURSIVE Save(_)
RECURSIVE SaveItems(_, _)
\* The pickler's save(obj): a str, int or bool is one push opcode (written
\* here as the value itself); a dict is EMPTY_DICT and, when it has items,
\* MARK key value ... SETITEMS
Save(v) ==
    IF ~IsDict(v) THEN <<v>>
    ELSE IF DOMAIN v.d = {} THEN <<EMPTY_DICT>>
    ELSE <<EMPTY_DICT, MARK>> \o SaveItems(v.d, DOMAIN v.d) \o <<SETITEMS>>

SaveItems(f, keys) ==
    IF keys = {} THEN <<>>
    ELSE LET k == CHOOSE x \in keys : TRUE
         IN <<PyStr(k)>> \o Save(f[k]) \o SaveItems(f, keys \ {k})

\* A dumps that writes the top level only: a dict inside a dict is written
\* empty
PickleDumpsTopLevel(v) ==
    Save(IF IsDict(v)
         THEN PyDict([k \in DOMAIN v.d |->
                        IF IsDict(v.d[k]) THEN EmptyDict ELSE v.d[k]])
         ELSE v) \o <<STOP>>

PickleDumps(v) == Save(v) \o <<STOP>>

\* The index of the topmost MARK on the stack
LastMark(stack) ==
    CHOOSE m \in 1..Len(stack) :
        /\ stack[m] = MARK
        /\ \A j \in (m + 1)..Len(stack) : stack[j] # MARK

RECURSIVE SetItemsFrom(_, _, _)
\* load_setitems: dict[items[j]] = items[j + 1] for every pair from j on
SetItemsFrom(f, items, j) ==
    IF j + 1 > Len(items) THEN f
    ELSE SetItemsFrom(SetItem(f, items[j].s, items[j + 1]), items, j + 2)

\* One opcode of the unpickler's dispatch table, on the stack: MARK and
\* EMPTY_DICT push, SETITEMS stores the items above the topmost MARK into
\* the dict below it, a str, int or bool opcode pushes its value
UnpickleStep(o, stack) ==
    CASE o = MARK -> Append(stack, MARK)
      [] o = EMPTY_DICT -> Append(stack, EmptyDict)
      [] o = SETITEMS ->
            LET m == LastMark(stack)
                items == SubSeq(stack, m + 1, Len(stack))
                dict == stack[m - 1]
            IN Append(SubSeq(stack, 1, m - 2),
                      PyDict(SetItemsFrom(dict.d, items, 1)))
      [] OTHER -> Append(stack, o)

RECURSIVE Unpickle(_, _, _)
\* The unpickler's loop: one opcode at a time (pos is the read position in
\* the data), until STOP returns the top of the stack
\* (the guard on Len(stack) holds at every step; it keeps the stack a value
\* computed step by step, as the unpickler's list is)
Unpickle(ops, pos, stack) ==
    IF Len(stack) >= 0 /\ ops[pos] = STOP THEN stack[Len(stack)]
    ELSE Unpickle(ops, pos + 1, UnpickleStep(ops[pos], stack))

PickleLoads(data) == Unpickle(data, 1, <<>>)

----------------------------------------------------------------------------
(* Fernet and the two files *)

\* A file: absent, or present with its content
Absent == [exists |-> FALSE]
File(c) == [exists |-> TRUE, content |-> c]

\* The content of a key file is a key (1, 2, ...), or 0: not a Fernet key
\* (an empty or cut-off file)
NoKey == 0

\* fernet.encrypt(data): a token only its key opens
FernetEncrypt(key, data) == [key |-> key, data |-> data]

\* The bytes of a data file: all of a token, or what a write that did not
\* finish leaves after open(.., 'wb') emptied the file (nothing, or the
\* first bytes of the token)
Whole(token) == [n |-> "all", tok |-> token]
CutOff == [n |-> "cut"]

\* fernet.decrypt(encrypted) under key: InvalidToken unless the bytes are a
\* whole token made with that key
FernetDecrypt(key, bytes) ==
    IF bytes.n = "all" /\ bytes.tok.key = key
    THEN [outcome |-> "ok", data |-> bytes.tok.data]
    ELSE [outcome |-> "InvalidToken", data |-> <<>>]

\* What the environment does to a write: nothing, refuse the open, fail the
\* write after the open truncated the file, or end the process in the write
IoEvents == {"ok", "open_fails", "write_fails", "killed"}
Killed(io) == io = "killed"

\* A generate_key() without the os.path.exists test
GenerateKeyAlways(kf, fresh, io) ==
    IF io = "ok" THEN [outcome |-> "ok", keyFile |-> File(fresh), made |-> TRUE]
    ELSE IF io = "open_fails" THEN [outcome |-> "IOError", keyFile |-> kf, made |-> TRUE]
    ELSE [outcome |-> IF Killed(io) THEN "killed" ELSE "IOError",
          keyFile |-> File(NoKey), made |-> TRUE]

\* generate_key(): fresh is what Fernet.generate_key() returns
GenerateKey(kf, fresh, io) ==
    IF kf.exists THEN [outcome |-> "ok", keyFile |-> kf, made |-> FALSE]
    ELSE IF io = "ok" THEN [outcome |-> "ok", keyFile |-> File(fresh), made |-> TRUE]
    ELSE IF io = "open_fails" THEN [outcome |-> "IOError", keyFile |-> kf, made |-> TRUE]
    ELSE [outcome |-> IF Killed(io) THEN "killed" ELSE "IOError",
          keyFile |-> File(NoKey), made |-> TRUE]

\* save_favorites_encrypted(favorites): how it ends and the data file after
SaveFavoritesEncrypted(kf, df, tree, io) ==
    IF ~kf.exists THEN [outcome |-> "IOError", dataFile |-> df]
    ELSE IF kf.content = NoKey THEN [outcome |-> "ValueError", dataFile |-> df]
    ELSE LET encrypted == FernetEncrypt(kf.content, PickleDumps(tree)) IN
        CASE io = "ok" -> [outcome |-> "ok", dataFile |-> File(Whole(encrypted))]
          [] io = "open_fails" -> [outcome |-> "IOError", dataFile |-> df]
          [] io = "write_fails" -> [outcome |-> "IOError", dataFile |-> File(CutOff)]
          [] OTHER -> [outcome |-> "killed", dataFile |-> File(CutOff)]

\* A load that tests only the data file before it reads the key
LoadWithoutKeyTest(kf, df) ==
    IF ~df.exists THEN [outcome |-> "ok", value |-> EmptyDict]
    ELSE IF ~kf.exists THEN [outcome |-> "IOError", value |-> EmptyDict]
    ELSE IF kf.content = NoKey THEN [outcome |-> "ValueError", value |-> EmptyDict]
    ELSE LET dec == FernetDecrypt(kf.content, df.content) IN
        IF dec.outcome # "ok" THEN [outcome |-> dec.outcome, value |-> EmptyDict]
        ELSE [outcome |-> "ok", value |-> PickleLoads(dec.data)]

\* A load that catches what decrypt raises and returns {}
LoadSwallowingErrors(kf, df) ==
    IF ~df.exists \/ ~kf.exists THEN [outcome |-> "ok", value |-> EmptyDict]
    ELSE IF kf.content = NoKey THEN [outcome |-> "ok", value |-> EmptyDict]
    ELSE LET dec == FernetDecrypt(kf.content, df.content) IN
        IF dec.outcome # "ok" THEN [outcome |-> "ok", value |-> EmptyDict]
        ELSE [outcome |-> "ok", value |-> PickleLoads(dec.data)]

\* load_favorites_encrypted(): how it ends and what it returns
LoadFavoritesEncrypted(kf, df) ==
    IF ~df.exists \/ ~kf.exists THEN [outcome |-> "ok", value |-> EmptyDict]
    ELSE IF kf.content = NoKey THEN [outcome |-> "ValueError", value |-> EmptyDict]
    ELSE LET dec == FernetDecrypt(kf.content, df.content) IN
        IF dec.outcome # "ok" THEN [outcome |-> dec.outcome, value |-> EmptyDict]
        ELSE [outcome |-> "ok", value |-> PickleLoads(dec.data)]

----------------------------------------------------------------------------
(* The store: program starts, add_favorite, load, and the environment *)

NoArgs == [name |-> "", folder_path |-> <<>>, conn_data |-> EmptyDict]

\* The record of an operation: what it was called with, the files before
\* it, how it ended and what it returned
Done(op, args, outcome, value) ==
    [op |-> op, args |-> args, outcome |-> outcome, value |-> value,
     preKey |-> keyFile, preData |-> dataFile]

StoreInit ==
    /\ keyFile = Absent
    /\ dataFile = Absent
    /\ favorites = EmptyDict
    /\ menu = {}
    /\ phase = "off"
    /\ keysMade = 0
    /\ adds = 0
    /\ last = [op |-> "none", args |-> NoArgs, outcome |-> "ok",
               value |-> EmptyDict, preKey |-> Absent, preData |-> Absent]

\* main() and MTabsMainWindow.__init__: generate_key(), then
\* self.favorites = load_favorites_encrypted(), then the menu. An exception
\* leaves __init__ and ends the process.
StartWith(ios) ==
    /\ phase = "off"
    /\ keyFile.exists \/ keysMade < MaxKeys
    /\ \E io \in ios :
        LET gk == GenerateKey(keyFile, keysMade + 1, io)
            ld == LoadFavoritesEncrypted(gk.keyFile, dataFile)
            outcome == IF gk.outcome # "ok" THEN gk.outcome ELSE ld.outcome
        IN /\ keyFile.exists => io = "ok"
           /\ keyFile' = gk.keyFile
           /\ keysMade' = IF gk.made THEN keysMade + 1 ELSE keysMade
           /\ phase' = IF outcome = "ok" THEN "running" ELSE "off"
           /\ favorites' = IF outcome = "ok" THEN ld.value ELSE EmptyDict
           /\ menu' = IF outcome = "ok" THEN UpdateFavoritesMenu(ld.value) ELSE {}
           /\ last' = Done("start", NoArgs, outcome,
                           IF outcome = "ok" THEN ld.value ELSE EmptyDict)
    /\ UNCHANGED <<dataFile, adds>>
    /\ UNCHANGED sessVars

\* MTabsMainWindow.add_favorite(name, folder_path, conn_data), with io what
\* the file system does to the save
AddFavoriteCall(name, folder_path, conn_data, io) ==
    LET r == Insert(favorites, folder_path, name, conn_data)
        sv == SaveFavoritesEncrypted(keyFile, dataFile, r.val, io)
        outcome == IF r.err THEN "TypeError" ELSE sv.outcome
        args == [name |-> name, folder_path |-> folder_path,
                 conn_data |-> conn_data]
    IN /\ r.err => io = "ok"
       /\ dataFile' = IF r.err THEN dataFile ELSE sv.dataFile
       /\ phase' = IF outcome = "killed" THEN "off" ELSE "running"
       /\ favorites' = IF outcome = "killed" THEN EmptyDict ELSE r.val
       /\ menu' = IF outcome = "killed" THEN {}
                  ELSE IF r.err THEN menu
                  ELSE UpdateFavoritesMenu(r.val)
       /\ last' = Done("add_favorite", args, outcome, EmptyDict)

\* A call of add_favorite on the running window
AddFavoriteWith(paths, ios) ==
    /\ phase = "running"
    /\ adds < MaxAdds
    /\ \E name \in Names, folder_path \in paths, conn_data \in Profiles,
          io \in ios :
        AddFavoriteCall(name, folder_path, conn_data, io)
    /\ adds' = adds + 1
    /\ UNCHANGED <<keyFile, keysMade>>
    /\ UNCHANGED sessVars

\* A call of load_favorites_encrypted() on the files as they are
Load ==
    /\ LET ld == LoadFavoritesEncrypted(keyFile, dataFile)
       IN last' = Done("load", NoArgs, ld.outcome, ld.value)
    /\ UNCHANGED <<keyFile, dataFile, favorites, menu, phase, keysMade, adds>>
    /\ UNCHANGED sessVars

\* The window is closed: sys.exit(app.exec_())
Exit ==
    /\ phase = "running"
    /\ phase' = "off"
    /\ favorites' = EmptyDict
    /\ menu' = {}
    /\ last' = Done("exit", NoArgs, "ok", EmptyDict)
    /\ UNCHANGED <<keyFile, dataFile, keysMade, adds>>
    /\ UNCHANGED sessVars

\* The environment: the key file is lost
LoseKeyFile ==
    /\ keyFile.exists
    /\ keyFile' = Absent
    /\ last' = Done("lose_key", NoArgs, "ok", EmptyDict)
    /\ UNCHANGED <<dataFile, favorites, menu, phase, keysMade, adds>>
    /\ UNCHANGED sessVars

\* The store with every outcome of the file writes, on short folder paths
StartIo == StartWith(IoEvents)
AddFavoriteIo == AddFavoriteWith(ShortPaths, IoEvents)

StoreNext ==
    \/ StartIo
    \/ AddFavoriteIo
    \/ Load
    \/ Exit
    \/ LoseKeyFile

\* The tree and its round trip through the files, on every folder path,
\* with writes that succeed
Start == StartWith({"ok"})
AddFavorite == AddFavoriteWith(FolderPaths, {"ok"})

TreeNext ==
    \/ Start
    \/ AddFavorite
    \/ Exit


----------------------------------------------------------------------------
(* The session tabs: the surface *)

Sizes == {900, 1200}
FallbackSize == 900

\* A surface that does not exist yet
NoSurface ==
    [owner |-> 0, st |-> "none", handlers |-> 0, connects |-> 0, writes |-> 0,
     server |-> EmptyDict, desktop |-> 0, vis |-> 0, doomed |-> FALSE]

\* QAxWidget('MsTscAx.MsTscAx.7') made for widget w: not connected, no
\* property set, not laid out yet
NewSurface(w) == [NoSurface EXCEPT !.owner = w, !.st = "idle"]

\* rdp.property('Connected') == 1: the session is up, also while a
\* Disconnect() is still on its way
IsConnected(sf) == sf.st \in {"connected", "disconnecting"}

\* rdp.dynamicCall('Connect()'): the call is counted; it starts a connection
\* only on a surface that has none
Connect(sf) ==
    [sf EXCEPT !.connects = @ + 1,
               !.st = IF @ = "idle" THEN "connecting" ELSE @]

\* rdp.dynamicCall('Disconnect()')
Disconnect(sf) ==
    [sf EXCEPT !.st = IF @ \in {"connected", "connecting"} THEN "disconnecting" ELSE @]

\* setProperty('DesktopWidth' / 'DesktopHeight'): the write is counted; the
\* control takes a new resolution only while it has no session
SetDesktop(sf, size) ==
    [sf EXCEPT !.writes = @ + 1,
               !.desktop = IF sf.st = "idle" THEN size ELSE @]

\* setProperty('Server', ..) and the other settings of _rdp_config
SetServer(sf, config) ==
    [sf EXCEPT !.server = IF sf.st = "idle" THEN config ELSE @]

\* RDPWidget.resizeEvent: self.rdp.resize(width, height)
ResizeEvent(sf, size) == [sf EXCEPT !.vis = size]

\* RDPWidget.showEvent on the surface self.rdp
ShowEvent(sf, config) ==
    LET size == IF sf.vis > 0 THEN sf.vis ELSE FallbackSize
    IN Connect(SetDesktop(SetServer(sf, config), size))

\* do_reconnect() of reconnect_tab, on the surface the closure holds
DoReconnect(sf) == Connect(SetDesktop(sf, sf.vis))

RECURSIVE RunHandlers(_, _)
\* The do_reconnect closures connected to OnDisconnected run one after the
\* other; each disconnects itself at its end
RunHandlers(sf, n) ==
    IF n = 0 THEN sf
    ELSE RunHandlers([DoReconnect(sf) EXCEPT !.handlers = @ - 1], n - 1)

----------------------------------------------------------------------------
(* The session tabs: the tab widget *)

\* The window's state as one record, so that the steps of a handler compose
UI == [tabs |-> tabs, cur |-> cur, kind |-> kind, conf |-> conf,
       rdpOf |-> rdpOf, surf |-> surf, winSize |-> winSize,
       nWid |-> nWid, nSurf |-> nSurf]

SetUI(u) ==
    /\ tabs' = u.tabs
    /\ cur' = u.cur
    /\ kind' = u.kind
    /\ conf' = u.conf
    /\ rdpOf' = u.rdpOf
    /\ surf' = u.surf
    /\ winSize' = u.winSize
    /\ nWid' = u.nWid
    /\ nSurf' = u.nSurf

\* Every counter within its bound
Bounded(u) ==
    /\ u.nWid <= MaxWidgets
    /\ u.nSurf <= MaxSurfaces
    /\ \A s \in 1..MaxSurfaces :
          u.surf[s].connects + u.surf[s].handlers <= MaxConnects

\* Qt shows page w: a pending resize is delivered, then the show event
ShowWidget(u, w) ==
    IF u.kind[w] = "rdp"
    THEN [u EXCEPT !.surf[u.rdpOf[w]] =
                      ShowEvent(ResizeEvent(@, u.winSize), u.conf[w])]
    ELSE u

\* tab_widget.addTab(w, ..) and tab_widget.setCurrentWidget(w)
AddTabCurrent(u, w) ==
    ShowWidget([u EXCEPT !.tabs = Append(@, w), !.cur = Len(u.tabs) + 1], w)

\* tab_widget.removeTab(i): the page leaves the tab widget (it is not
\* deleted); when it was the current one, the tab to its right, or else the
\* last one, becomes current and is shown
RemoveTab(u, i) ==
    IF i \notin 1..Len(u.tabs) THEN u
    ELSE LET rest == SubSeq(u.tabs, 1, i - 1) \o SubSeq(u.tabs, i + 1, Len(u.tabs))
             n == Len(rest)
         IN IF n = 0 THEN [u EXCEPT !.tabs = rest, !.cur = 0]
            ELSE IF i = u.cur
            THEN LET c == IF i <= n THEN i ELSE n
                 IN ShowWidget([u EXCEPT !.tabs = rest, !.cur = c], rest[c])
            ELSE [u EXCEPT !.tabs = rest,
                           !.cur = IF i < u.cur THEN u.cur - 1 ELSE u.cur]

\* RDPWidget(host, ..) is built, added as the last tab and made current:
\* _add_tab and _open_favorite_connection
AddRdpTab(u, config) ==
    LET w == u.nWid + 1
        s == u.nSurf + 1
    IN AddTabCurrent(
          [u EXCEPT !.nWid = w, !.nSurf = s, !.kind[w] = "rdp",
                    !.conf[w] = config, !.rdpOf[w] = s,
                    !.surf[s] = NewSurface(w)], w)

\* A NovaConexaoWidget is built, added as the last tab and made current
AddFormTab(u, k) ==
    LET w == u.nWid + 1
    IN AddTabCurrent([u EXCEPT !.nWid = w, !.kind[w] = k], w)

\* _show_welcome()
ShowWelcome(u) == IF Len(u.tabs) = 0 THEN AddFormTab(u, "welcome") ELSE u

Widgets == 1..MaxWidgets
SurfaceIds == 1..MaxSurfaces

\* The window after MTabsMainWindow.__init__ and window.show(): the
\* welcome form alone
SessInit ==
    /\ winSize = 900
    /\ nSurf = 0
    /\ surf = [s \in SurfaceIds |-> NoSurface]
    /\ rdpOf = [w \in Widgets |-> 0]
    /\ conf = [w \in Widgets |-> EmptyDict]
    /\ kind = [w \in Widgets |-> IF w = 1 THEN "welcome" ELSE "none"]
    /\ nWid = 1
    /\ tabs = <<1>>
    /\ cur = 1

----------------------------------------------------------------------------
(* The session tabs: the handlers *)

\* _open_favorite_connection(fav_data): the arguments RDPWidget is given
FavConfig(fav_data) ==
    PyDict([k \in {"host", "username", "password", "domain", "port", "nla"} |->
        IF k \in DOMAIN fav_data.d THEN fav_data.d[k]
        ELSE CASE k = "domain" -> PyStr("")
               [] k = "port" -> PyInt(DefaultPort)
               [] OTHER -> PyBool(TRUE)])

\* A favorite of the menu is clicked
OpenFavorite ==
    /\ nWid < MaxWidgets
    /\ nSurf < MaxSurfaces
    /\ \E e \in menu :
        /\ e.kind = "action"
        /\ LET u == AddRdpTab(UI, FavConfig(e.value))
           IN Bounded(u) /\ SetUI(u)
    /\ UNCHANGED storeVars

\* 'Adicionar conexao' of the menu: add_connection()
AddConnection ==
    /\ nWid < MaxWidgets
    /\ LET u == AddFormTab(UI, "form")
       IN Bounded(u) /\ SetUI(u)
    /\ UNCHANGED storeVars

\* What NovaConexaoWidget.get_data() may return
FormData ==
    { <<host, username>> : host \in {"", "h1"}, username \in {"", "u1"} }

\* on_connect of _show_welcome
WelcomeOnConnect(u, data) ==
    IF data[1] = "" \/ data[2] = "" THEN u
    ELSE RemoveTab(
            AddRdpTab(u, ConnData(data[1], data[2], "pw", "", DefaultPort, TRUE)),
            1)

\* _on_nova_conexao_connect
OnNovaConexaoConnect(u, data) ==
    IF data[1] = "" \/ data[2] = "" THEN u
    ELSE LET u1 == AddRdpTab(u, ConnData(data[1], data[2], "pw", "", DefaultPort, TRUE))
         IN RemoveTab(u1, u1.cur)

\* 'Conectar' is clicked on the form that is showing
FormConnect ==
    /\ cur > 0
    /\ kind[tabs[cur]] \in {"welcome", "form"}
    /\ nWid < MaxWidgets
    /\ nSurf < MaxSurfaces
    /\ \E data \in FormData :
        LET u == IF kind[tabs[cur]] = "welcome"
                 THEN WelcomeOnConnect(UI, data)
                 ELSE OnNovaConexaoConnect(UI, data)
        IN Bounded(u) /\ SetUI(u)
    /\ UNCHANGED storeVars

\* NovaConexaoWidget.get_favorite_data() on a form holding data
GetFavoriteData(data) ==
    [name |-> IF data[1] # "" THEN data[1] ELSE "Favorito",
     folder |-> <<>>,
     conn_data |-> ConnData(data[1], data[2], "pw", "", DefaultPort, TRUE)]

\* 'Salvar como favorito' is clicked on the form that is showing:
\* _on_fav_clicked, then _on_nova_conexao_favoritar (on_favoritar of the
\* welcome form is the same code)
FormFavorite ==
    /\ phase = "running"
    /\ adds < MaxAdds
    /\ cur > 0
    /\ kind[tabs[cur]] \in {"welcome", "form"}
    /\ \E data \in FormData :
        LET fav == GetFavoriteData(data)
        IN IF fav.name # ""
           THEN AddFavoriteCall(fav.name, fav.folder, fav.conn_data, "ok")
           ELSE UNCHANGED <<dataFile, phase, favorites, menu, last>>
    /\ adds' = adds + 1
    /\ UNCHANGED <<keyFile, keysMade>>
    /\ UNCHANGED sessVars

\* Another tab is clicked: its page is shown
SelectTab ==
    /\ \E i \in 1..Len(tabs) :
        /\ i # cur
        /\ LET u == ShowWidget([UI EXCEPT !.cur = i], tabs[i])
           IN Bounded(u) /\ SetUI(u)
    /\ UNCHANGED storeVars

\* MTabsMainWindow.close_tab(index)
CloseTabAt(u, index) == ShowWelcome(RemoveTab(u, index))

\* tabCloseRequested for tab i: the close button, the middle button or
\* 'Fechar aba' of the context menu
CloseTab ==
    /\ Len(tabs) = 1 => nWid < MaxWidgets
    /\ \E i \in 1..Len(tabs) :
        LET u == CloseTabAt(UI, i)
        IN Bounded(u) /\ SetUI(u)
    /\ UNCHANGED storeVars

\* A tab is dragged to another place (setMovable); the current page stays
MoveTab ==
    /\ \E i \in 1..Len(tabs), j \in 1..Len(tabs) :
        /\ i # j
        /\ LET w == tabs[i]
               rest == SubSeq(tabs, 1, i - 1) \o SubSeq(tabs, i + 1, Len(tabs))
               moved == SubSeq(rest, 1, j - 1) \o <<w>> \o SubSeq(rest, j, Len(rest))
           IN /\ tabs' = moved
              /\ cur' = CHOOSE c \in 1..Len(moved) : moved[c] = tabs[cur]
    /\ UNCHANGED <<kind, conf, rdpOf, surf, winSize, nWid, nSurf>>
    /\ UNCHANGED storeVars

\* The window is resized: resizeEvent of the page that is showing
ResizeWindow ==
    /\ \E size \in Sizes \ {winSize} :
        /\ winSize' = size
        /\ surf' = IF cur > 0 /\ kind[tabs[cur]] = "rdp"
                   THEN [surf EXCEPT ![rdpOf[tabs[cur]]] = ResizeEvent(@, size)]
                   ELSE surf
    /\ UNCHANGED <<tabs, cur, kind, conf, rdpOf, nWid, nSurf>>
    /\ UNCHANGED storeVars

\* reconnect_tab() of the tab bar's context menu, on the surface sf of the
\* tab: connected, do_reconnect is connected to OnDisconnected and
\* Disconnect() is called; otherwise do_reconnect runs at once
ReconnectRequest(sf) ==
    IF IsConnected(sf)
    THEN Disconnect([sf EXCEPT !.handlers = @ + 1])
    ELSE DoReconnect(sf)

\* 'Reconectar' of the context menu of tab i
ReconnectTab ==
    /\ \E i \in 1..Len(tabs) :
        /\ kind[tabs[i]] = "rdp"
        /\ LET s == rdpOf[tabs[i]]
               u == [UI EXCEPT !.surf[s] = ReconnectRequest(@)]
           IN Bounded(u) /\ SetUI(u)
    /\ UNCHANGED storeVars

\* The surface reports that its connection is up
OnConnected ==
    /\ \E s \in SurfaceIds :
        /\ surf[s].st = "connecting"
        /\ surf' = [surf EXCEPT ![s].st = "connected"]
    /\ UNCHANGED <<tabs, cur, kind, conf, rdpOf, winSize, nWid, nSurf>>
    /\ UNCHANGED storeVars

\* The surface reports that its session ended (a Disconnect() completed,
\* the connection failed or the server dropped it): OnDisconnected and the
\* handlers connected to it
OnDisconnected ==
    /\ \E s \in SurfaceIds :
        /\ surf[s].st \in {"connecting", "connected", "disconnecting"}
        /\ surf' = [surf EXCEPT ![s] =
                       RunHandlers([@ EXCEPT !.st = "idle"], @.handlers)]
    /\ UNCHANGED <<tabs, cur, kind, conf, rdpOf, winSize, nWid, nSurf>>
    /\ UNCHANGED storeVars

\* RDPWidget.reconnect_rdp() of widget w: the old surface is taken off the
\* layout and handed to deleteLater(), a new one is made, sized, set up and
\* connected
ReconnectRdpOn(u, w) ==
    LET old == u.rdpOf[w]
        s == u.nSurf + 1
        size == IF u.surf[old].vis > 0 THEN u.surf[old].vis ELSE FallbackSize
    IN [u EXCEPT !.nSurf = s,
                 !.rdpOf[w] = s,
                 !.surf[old].doomed = TRUE,
                 !.surf[s] = Connect(SetDesktop(SetServer(
                                ResizeEvent(NewSurface(w), size), u.conf[w]), size))]

\* A call of reconnect_rdp() on the widget of a tab
ReconnectRdp ==
    /\ nSurf < MaxSurfaces
    /\ \E i \in 1..Len(tabs) :
        /\ kind[tabs[i]] = "rdp"
        /\ LET u == ReconnectRdpOn(UI, tabs[i])
           IN Bounded(u) /\ SetUI(u)
    /\ UNCHANGED storeVars

\* Back in the event loop: an object handed to deleteLater() is deleted
DeferredDelete ==
    /\ \E s \in SurfaceIds :
        /\ surf[s].doomed
        /\ surf[s].st # "destroyed"
        /\ surf' = [surf EXCEPT ![s].st = "destroyed"]
    /\ UNCHANGED <<tabs, cur, kind, conf, rdpOf, winSize, nWid, nSurf>>
    /\ UNCHANGED storeVars

----------------------------------------------------------------------------
(* Specifications *)

\* The favorites the window of the session specifications has loaded
LoadedFavorites ==
    Insert(EmptyDict, <<"a">>, "host",
           ConnData("h2", "u2", "", "dom", 3390, FALSE)).val

SessStoreInit ==
    /\ keyFile = File(1)
    /\ dataFile = File(Whole(FernetEncrypt(1, PickleDumps(LoadedFavorites))))
    /\ favorites = LoadedFavorites
    /\ menu = UpdateFavoritesMenu(LoadedFavorites)
    /\ phase = "running"
    /\ keysMade = 1
    /\ adds = 0
    /\ last = [op |-> "start", args |-> NoArgs, outcome |-> "ok",
               value |-> LoadedFavorites, preKey |-> File(1),
               preData |-> File(Whole(FernetEncrypt(1, PickleDumps(LoadedFavorites))))]

\* The handlers the window wires to its tabs, menus and surfaces
SessNext ==
    \/ OpenFavorite
    \/ AddConnection
    \/ FormConnect
    \/ SelectTab
    \/ CloseTab
    \/ MoveTab
    \/ ResizeWindow
    \/ ReconnectTab
    \/ OnConnected
    \/ OnDisconnected

InitSession == SessStoreInit /\ SessInit

SpecSession == InitSession /\ [][SessNext]_vars

\* The forms and the favorites menu: what is saved and what is connected
FormNext ==
    \/ FormFavorite
    \/ FormConnect
    \/ OpenFavorite
    \/ AddConnection
    \/ CloseTab

SpecForm == InitSession /\ [][FormNext]_vars

\* RDPWidget with all its operations: made, shown, resized, reconnected by
\* the tab bar or by reconnect_rdp(), closed
WidgetNext ==
    \/ OpenFavorite
    \/ SelectTab
    \/ CloseTab
    \/ ResizeWindow
    \/ ReconnectTab
    \/ OnConnected
    \/ OnDisconnected
    \/ ReconnectRdp
    \/ DeferredDelete

SpecWidget == InitSession /\ [][WidgetNext]_vars

\* The program before its first start, with the window still to be built
InitStore == StoreInit /\ SessInit

SpecStore == InitStore /\ [][StoreNext]_vars

SpecTree == InitStore /\ [][TreeNext]_vars

----------------------------------------------------------------------------
(* Properties of the session tabs *)

\* A reconnect was requested on the connected surface s and the surface
\* has not confirmed the disconnect yet
AwaitsDisconnect(sf) == sf.st = "disconnecting" /\ sf.handlers > 0

\* C1: from a reconnect request on a connected surface until its
\* OnDisconnected, no step issues a Connect() to the surface and none gives
\* its tab another surface.
C1_ReconnectWaits ==
    [][\A s \in SurfaceIds :
          (AwaitsDisconnect(surf[s]) /\ AwaitsDisconnect(surf'[s]))
          => /\ surf'[s].connects = surf[s].connects
             /\ \A w \in Widgets : rdpOf[w] = s => rdpOf'[w] = s]_vars

\* The surfaces of widget w that were made and are not deleted
LiveSurfaces(w) ==
    { s \in SurfaceIds : surf[s].owner = w /\ surf[s].st \notin {"none", "destroyed"} }

\* C2: a session tab has at most one live surface at any time.
C2_OneSurfacePerTab ==
    \A w \in Widgets : Cardinality(LiveSurfaces(w)) <= 1

----------------------------------------------------------------------------
(* Properties of the store *)

\* C3: a load with the data file absent or the key file absent returns an
\* empty tree, raises nothing and leaves both files as they were.
C3_LoadFailsSoft ==
    (last.op = "load" /\ (~last.preData.exists \/ ~last.preKey.exists))
    => /\ last.outcome = "ok"
       /\ last.value = EmptyDict
       /\ keyFile = last.preKey
       /\ dataFile = last.preData

\* A load was made with a data file on disk and no key file
C3_Witness ==
    /\ last.op = "load"
    /\ last.preData.exists
    /\ ~last.preKey.exists
    /\ last.outcome = "ok"

\* The load of a start or of a call met a whole token under a key file
\* holding another key
WrongKeyMet ==
    /\ last.op \in {"load", "start"}
    /\ last.preData.exists
    /\ last.preData.content.n = "all"
    /\ keyFile.exists
    /\ keyFile.content # NoKey
    /\ keyFile.content # last.preData.content.tok.key

\* C4: a load of a data file under a key that is not the one it was
\* encrypted with ends in the decryption error, which reaches the caller (a
\* start ends without a window); no tree is returned and the data file is
\* kept as it was.
C4_WrongKeyRaises ==
    WrongKeyMet
    => /\ last.outcome = "InvalidToken"
       /\ dataFile = last.preData
       /\ last.op = "start" => (phase = "off" /\ favorites = EmptyDict /\ menu = {})

\* The key file was lost and a start made a new key, with data on disk
C4_Witness ==
    /\ WrongKeyMet
    /\ last.op = "start"
    /\ ~last.preKey.exists
    /\ last.outcome = "InvalidToken"

\* C5: after a save that succeeded, a load under the same key returns the
\* tree that was saved: same folders, same names, same values.
C5_RoundTrip ==
    (last.op = "add_favorite" /\ last.outcome = "ok")
    => LoadFavoritesEncrypted(keyFile, dataFile)
         = [outcome |-> "ok", value |-> favorites]

\* A tree with a folder that holds a profile, and a second entry, was saved
C5_Witness ==
    /\ last.op = "add_favorite"
    /\ last.outcome = "ok"
    /\ Cardinality(DOMAIN favorites.d) >= 2
    /\ \E k \in DOMAIN favorites.d :
          /\ IsSubmenu(favorites.d[k])
          /\ \E j \in DOMAIN favorites.d[k].d : favorites.d[k].d[j] \in Profiles

\* The segments of a folder path that are not empty: its tokens other than
\* the separator
Segments(folder_path) == SelectSeq(folder_path, LAMBDA t : t # "/")

\* C6: after add_favorite(name, folder_path, profile) the traversal finds
\* every folder of the path as a submenu and, under them, exactly one leaf
\* named name, bound to exactly profile; the call raises nothing.
C6_AddFavoritePost ==
    last.op = "add_favorite"
    => LET parts == Segments(last.args.folder_path)
       IN /\ last.outcome = "ok"
          /\ \A n \in 1..Len(parts) :
                \E e \in menu : /\ e.kind = "submenu"
                                 /\ e.path = SubSeq(parts, 1, n - 1)
                                 /\ e.key = parts[n]
          /\ { e \in menu : e.path = parts /\ e.key = last.args.name }
               = {[kind |-> "action", path |-> parts, key |-> last.args.name,
                   value |-> last.args.conn_data]}

ProfileFields == {"host", "username", "password", "domain", "port", "nla"}

\* A profile record: the six fields, none of them a dict
IsProfile(v) ==
    /\ IsDict(v)
    /\ DOMAIN v.d = ProfileFields
    /\ \A k \in DOMAIN v.d : ~IsDict(v.d[k])

RECURSIVE WellFormed(_)
\* Every entry of a folder is a profile record that the traversal takes for
\* a leaf, or a folder (entries that are all dicts) that the traversal takes
\* for a submenu and that is well formed itself
WellFormed(f) ==
    \A k \in DOMAIN f :
        \/ IsProfile(f[k]) /\ ~IsSubmenu(f[k])
        \/ /\ IsDict(f[k])
           /\ ~IsProfile(f[k])
           /\ IsSubmenu(f[k])
           /\ WellFormed(f[k].d)

\* C7: every key of the tree, at every level, is a folder or a profile,
\* never both: no profile record has child entries, and the traversal
\* takes each node for what it is.
C7_FolderOrLeaf == WellFormed(favorites.d)

\* C8: after a save, however it ended, the data file is the one from before
\* the save or a whole new token.
C8_AtomicReplace ==
    last.op = "add_favorite"
    => \/ dataFile = last.preData
       \/ dataFile.exists /\ dataFile.content.n = "all"

\* C9: after an add_favorite that left the window running, also one whose
\* save raised, a load returns the favorites tree in memory, and the menu
\* shows that tree.
C9_DiskEqualsMemory ==
    (last.op = "add_favorite" /\ phase = "running")
    => /\ LoadFavoritesEncrypted(keyFile, dataFile)
            = [outcome |-> "ok", value |-> favorites]
       /\ menu = UpdateFavoritesMenu(favorites)

\* C10: a start that finds a key file leaves its content as it was.
C10_KeyKept ==
    (last.op = "start" /\ last.preKey.exists) => keyFile = last.preKey

\* A later start found the key of an earlier one and decrypted the data
\* saved under it
C10_Witness ==
    /\ last.op = "start"
    /\ last.preKey.exists
    /\ last.preData.exists
    /\ last.outcome = "ok"
    /\ favorites # EmptyDict

----------------------------------------------------------------------------
(* Properties of the forms *)

\* host and username of a profile record are both non-empty
HostAndUser(v) ==
    /\ IsDict(v)
    /\ {"host", "username"} \subseteq DOMAIN v.d
    /\ v.d["host"] # PyStr("")
    /\ v.d["username"] # PyStr("")

\* C11: a profile that was saved as a favorite has a non-empty host and a
\* non-empty username, and so has the configuration of every surface that
\* was given a Connect().
C11_HostAndUserSet ==
    /\ (last.op = "add_favorite" /\ last.outcome = "ok")
          => HostAndUser(last.args.conn_data)
    /\ \A s \in SurfaceIds :
          surf[s].connects > 0 => HostAndUser(surf[s].server)

----------------------------------------------------------------------------
(* Properties of closing a tab *)

\* C12: a second close with the handle of a session tab that was just
\* closed (the index close_tab is given) is a no-op: the window after
\* close_tab(i), close_tab(i) is the window after close_tab(i); no other
\* tab is closed.
C12_CloseIdempotent ==
    \A i \in 1..Len(tabs) :
        (kind[tabs[i]] = "rdp" /\ (Len(tabs) = 1 => nWid < MaxWidgets))
        => LET u1 == CloseTabAt(UI, i)
           IN (Len(u1.tabs) = 1 => u1.nWid < MaxWidgets)
              => CloseTabAt(u1, i) = u1

\* Surface s belongs to a session tab that was closed: its widget is no
\* page of the tab widget any more
ClosedSurface(s) ==
    /\ surf[s].owner # 0
    /\ \A i \in 1..Len(tabs) : tabs[i] # surf[s].owner

\* C13: the surface of a closed tab is released (it has no session: it is
\* disconnected or destroyed), and no later step starts, ends or restarts a
\* session on it.
C13_CloseIsTerminal ==
    /\ [](\A s \in SurfaceIds :
            ClosedSurface(s) => surf[s].st \in {"idle", "destroyed"})
    /\ [][\A s \in SurfaceIds :
            ClosedSurface(s)
            => surf'[s].st = surf[s].st \/ surf'[s].st = "destroyed"]_vars

\* C14: no step issues a Connect() on the surface of a tab that is closed,
\* whatever event arrives and whatever handler was waiting for it.
C14_NoConnectAfterClose ==
    [][\A s \in SurfaceIds :
          ClosedSurface(s) => surf'[s].connects = surf[s].connects]_vars

----------------------------------------------------------------------------
(* Properties of showing, resizing and reconnecting a session tab *)

\* A session is being set up or is up on the surface
Established(sf) == sf.st \in {"connecting", "connected"}

\* C15: a resize of the window gives the surface of the page that is showing
\* the new visible size, and no step other than a reconnect request writes
\* DesktopWidth or DesktopHeight on a surface whose session is connecting or
\* connected.
C15_ResizeKeepsResolution ==
    [][/\ (winSize' # winSize /\ cur > 0 /\ kind[tabs[cur]] = "rdp")
            => surf'[rdpOf[tabs[cur]]].vis = winSize'
       /\ \/ ReconnectTab
          \/ \A s \in SurfaceIds :
                Established(surf[s]) => surf'[s].writes = surf[s].writes]_vars

\* C16: a surface that is connecting or connected gets no further Connect()
\* and keeps the configuration it was connected with, whichever tabs are
\* selected, opened or closed, unless the step is a reconnect request.
C16_ConnectOnFirstShow ==
    [][\/ ReconnectTab
       \/ \A s \in SurfaceIds :
             Established(surf[s])
             => /\ surf'[s].connects = surf[s].connects
                /\ surf'[s].server = surf[s].server]_vars

\* C17: a connect from the form that is showing, with host and username
\* given, leaves the tabs that were open without that form, in their order,
\* followed by the new session tab.
C17_FormReplaced ==
    [][FormConnect
       => tabs' = SelectSeq(tabs, LAMBDA w : w # tabs[cur]) \o <<nWid + 1>>]_vars

\* C18: the disconnect confirmation of a surface triggers at most one
\* Connect(), however many reconnect requests were made, and none when no
\* request is waiting.
C18_OneConnectPerReconnect ==
    [][OnDisconnected
       => \A s \in SurfaceIds :
             /\ surf'[s].connects <= surf[s].connects + 1
             /\ surf[s].handlers = 0
                  => surf'[s].connects = surf[s].connects]_vars

====
